---- MODULE Spec2Model ----
(***************************************************************************)
(* Facial scoring model pipeline: the trainer's epoch loop with checkpoint *)
(* selection and early stopping (train_model.py), the seeded train /       *)
(* validation split, the dataset adapter, the ONNX export and              *)
(* configuration file, the inference service's model slot, health and      *)
(* scoring endpoints (api/main.py), and the evaluator (test_model.py).     *)
(*                                                                         *)
(* Losses are IEEE floats in the code.  A loss is modelled as a record     *)
(* [k, v]: k = "fin" with v the loss in hundredths, k = "nan", or          *)
(* k = "inf" (+infinity).  The L1 loss is never negative, so -infinity     *)
(* does not occur.  The scheduler specification states its losses in a     *)
(* finer unit; comparisons do not depend on the unit.                      *)
(***************************************************************************)
EXTENDS Integers, Sequences, FiniteSets, TLC

\* ------------------------------------------------------------------ bounds

\* Largest epoch budget (NUM_EPOCHS) of the general trainer specification.
MaxEpochs == 4
\* Largest early-stopping threshold (PATIENCE) drawn in Init.
MaxPatience == 3
\* Largest scheduler patience and the epoch budget of the scheduler
\* specification.
MaxSchedPatience == 2
SchedEpochs == 5
\* Largest number of test images run_tests samples.
MaxSamples == 2
\* Epoch budget of the two scripted-loss scenarios (long enough for 5 epochs
\* followed by at least one more).
ScenarioEpochs == 6

\* ------------------------------------------------------------------ floats

Fin(v) == [k |-> "fin", v |-> v]
NaN == [k |-> "nan", v |-> 0]
PosInf == [k |-> "inf", v |-> 0]

IsFinite(x) == x.k = "fin"

\* The float comparison a < b: false whenever either side is NaN.
Lt(a, b) ==
  IF a.k = "nan" \/ b.k = "nan" THEN FALSE
  ELSE IF a.k = "inf" THEN FALSE
  ELSE IF b.k = "inf" THEN TRUE
  ELSE a.v < b.v

\* ------------------------------------------------------------------ state

VARIABLES
  \* trainer (train_model.py main)
  PATIENCE,          \* early-stopping threshold of this run
  NUM_EPOCHS,        \* epoch budget of this run
  train_domain,      \* the losses train_epoch may return in this run
  val_domain,        \* the losses validate may return in this run
  pc,                \* "loop" | "plot" | "load_best" | "export" | "config" |
                     \* "done" | "crashed"
  epoch,             \* index of the next loop iteration = epochs completed
  best_val_loss,
  patience_counter,
  history,           \* one [train_loss, val_loss] entry per epoch run
  checkpoint,        \* best_model.pth: <<>> (no file) or <<record>>
  writes,            \* the torch.save calls of this run, in order
  onnx,              \* the ONNX export as printed: "none" | "saved" | "failed"
  config,            \* model_config.json: "none" | "written"
  sched_patience,    \* patience of the ReduceLROnPlateau scheduler of this run
  sched_best,        \* the scheduler's best metric
  num_bad_epochs,    \* the scheduler's count of epochs without improvement
  lr,                \* the optimizer's learning rate
  \* train/validation split (train_model.py main, lines 247-276)
  split_pc,          \* "start" | "find" | "shuffle" | "split" | "done" | "no_images"
  run,               \* 1 or 2: which of two successive trainer processes
  rng,               \* state of Python's global random generator
  entries,           \* the image paths in the order glob lists them
  image_paths,
  train_paths,
  val_paths,
  prev_split,        \* <<>> or <<[entries, train, val]>> of the first process
  \* dataset adapter (FacialScoreDataset.__getitem__)
  item_pc,           \* "ready" | "returned" | "raised"
  scores_dict,       \* the label store: filename -> (metric -> score)
  image_decodes,     \* whether Image.open(...).convert succeeds for the file
  labels,            \* the label vector returned, <<>> before
  \* one pass of train_epoch / validate over a DataLoader
  pass_pc,           \* "iterating" | "completed" | "raised"
  pass_items,        \* per dataset index: does the image decode
  batch_size,
  pass_next,         \* first index of the next batch
  pass_seen,         \* the indices whose items reached the loop body
  \* inference service (api/main.py)
  svc_pc,            \* "startup" | "create" | "read" | "finish" | "serving" |
                     \* "recall" (load_model called again)
  disk,              \* per searched path: "absent" | "good" | "unreadable" |
                     \* "incompatible"
  model,             \* the global model slot: "None" | "fresh" | "loaded"
  model_path,        \* load_model's model_path: 0 for None, else the path's index
  resp,              \* the last GET /health response sent
  req,               \* <<>> or <<the scoring request waiting for its handler>>
  score_resp,        \* the last response to a scoring request
  prev_ok,           \* <<>> or <<the successful scoring response before it>>
  \* evaluator (test_model.py)
  eval_pc,           \* "start" | "load" | "sample" | "loop" | "predict" | "done" |
                     \* "crashed"
  eval_entry,        \* "run_tests" | "test_single_image"
  eval_ckpt,         \* the file at MODEL_PATH: "absent" | "good" | "unreadable" |
                     \* "incompatible"
  image_exists,      \* whether test_single_image's image_path exists
  test_images,       \* len(test_images)
  sample_i,          \* samples predicted so far
  total_errors,      \* per metric, the sum of the absolute errors so far
  eval_verdict,      \* the verdict run_tests printed, "none" before
  eval_result,       \* what the entry point returned, "none" before
  \* image preprocessing (get_transforms, get_inference_transform)
  pre_pc,            \* "open" | "transform" | "done"
  pre_site,          \* "train" | "validation" | "evaluator" | "service"
  pre_source,        \* the decoded image file: [mode, width, height]
  pre_image,         \* the image after the steps applied so far
  pre_applied,       \* the names of the steps applied so far, in order
  \* labelling scripts (label_full_dataset.py, generate_missing_scores.py)
  lab_script,        \* "label_full_dataset" | "generate_missing_scores"
  main_pc,           \* main(): "none" (score_image alone) | "start" | "loop" | "final_save" | "done" | "aborted"
  remaining,         \* len(remaining): the images still to score
  img_i,             \* the loop index i of main()
  lab_pc,            \* score_image: "idle" | "attempt" | "except" | "returned" | "raised"
  max_retries,       \* score_image's max_retries
  attempt,           \* score_image's loop variable
  api_calls,         \* calls of client.chat.completions.create for the current image
  sleeps,            \* the time.sleep arguments of score_image for the current image
  raw,               \* the outcome of the latest API call
  lab_scores,        \* what score_image returned, <<>> before
  completed,         \* main()'s completed: image index -> scores
  failed,            \* main()'s failed list
  saved,             \* whether the final save_progress and save_output have run
  \* the trainer's torch.save beside a starting service
  save_pc,           \* torch.save of best_model.pth: "idle" | "writing"
  saves_done         \* completed torch.save calls

trainVars == <<PATIENCE, NUM_EPOCHS, train_domain, val_domain, pc, epoch,
               best_val_loss, patience_counter, history, checkpoint, writes,
               onnx, config, sched_patience, sched_best, num_bad_epochs, lr>>

schedVars == <<sched_patience, sched_best, num_bad_epochs, lr>>

splitVars == <<split_pc, run, rng, entries, image_paths, train_paths, val_paths,
               prev_split>>

itemVars == <<item_pc, scores_dict, image_decodes, labels>>

passVars == <<pass_pc, pass_items, batch_size, pass_next, pass_seen>>

reqVars == <<req, score_resp, prev_ok>>

svcVars == <<svc_pc, disk, model, model_path, resp, reqVars>>

evalVars == <<eval_pc, eval_entry, eval_ckpt, image_exists, test_images, sample_i,
              total_errors, eval_verdict, eval_result>>

preVars == <<pre_pc, pre_site, pre_source, pre_image, pre_applied>>

labVars == <<lab_script, main_pc, remaining, img_i, lab_pc, max_retries, attempt, api_calls, sleeps, raw, lab_scores, completed, failed, saved>>

wrVars == <<save_pc, saves_done>>

nonTrainVars == <<splitVars, itemVars, passVars, svcVars, evalVars, preVars, labVars, wrVars>>
nonSplitVars == <<trainVars, itemVars, passVars, svcVars, evalVars, preVars, labVars, wrVars>>
nonItemVars == <<trainVars, splitVars, passVars, svcVars, evalVars, preVars, labVars, wrVars>>
nonPassVars == <<trainVars, splitVars, itemVars, svcVars, evalVars, preVars, labVars, wrVars>>
nonSvcVars == <<trainVars, splitVars, itemVars, passVars, evalVars, preVars, labVars, wrVars>>
nonEvalVars == <<trainVars, splitVars, itemVars, passVars, svcVars, preVars, labVars, wrVars>>
nonPreVars == <<trainVars, splitVars, itemVars, passVars, svcVars, evalVars, labVars, wrVars>>
nonLabVars == <<trainVars, splitVars, itemVars, passVars, svcVars, evalVars, preVars, wrVars>>
nonWrVars == <<trainVars, splitVars, itemVars, passVars, svcVars, evalVars, preVars, labVars>>

vars == <<trainVars, splitVars, itemVars, passVars, svcVars, evalVars, preVars, labVars, wrVars>>

\* ------------------------------------------------------------------ trainer

\* Mutant of Improved: the comparison written <= instead of <.
Improved_OrEqual(val_loss, best) ==
  Lt(val_loss, best) \/ (val_loss = best /\ val_loss.k # "nan")

\* Line 346: if val_loss < best_val_loss.
Improved(val_loss, best) == Lt(val_loss, best)

\* Mutant of BestAfter: best_val_loss is never updated.
BestAfter_Forgotten(val_loss, best) == best

\* Line 347: best_val_loss = val_loss, on improvement only.
BestAfter(val_loss, best) == IF Improved(val_loss, best) THEN val_loss ELSE best

\* Mutant of CounterAfter: the counter is not reset on improvement.
CounterAfter_NoReset(val_loss, best, counter) == counter + 1

\* Lines 348 and 360: patience_counter = 0 on improvement, += 1 otherwise.
CounterAfter(val_loss, best, counter) ==
  IF Improved(val_loss, best) THEN 0 ELSE counter + 1

\* Mutant of ShouldStop: the comparison written > instead of >=.
ShouldStop_Strict(counter, patience) == counter > patience

\* Mutant of ShouldStop: the early-stopping test is missing.
ShouldStop_Never(counter, patience) == FALSE

\* Line 363: if patience_counter >= PATIENCE.
ShouldStop(counter, patience) == counter >= patience

\* LEARNING_RATE (line 49), in units of 1e-4 / 1024.
LEARNING_RATE == 1024
\* patience of ReduceLROnPlateau (line 308).
SCHED_PATIENCE == 5

\* ReduceLROnPlateau in mode "min" with its default relative threshold 1e-4
\* (lines 307-309): a metric is better when it is below best * (1 - 1e-4).
IsBetter(a, best) ==
  IF a.k = "nan" \/ best.k = "nan" THEN FALSE
  ELSE IF a.k = "inf" THEN FALSE
  ELSE IF best.k = "inf" THEN TRUE
  ELSE 10000 * a.v < 9999 * best.v

\* scheduler.step (line 327): the best metric it remembers.
SchedBestAfter(val_loss, best) == IF IsBetter(val_loss, best) THEN val_loss ELSE best

\* scheduler.step (line 327): the bad epochs counted with this epoch.
BadEpochsWith(val_loss, best, bad) == IF IsBetter(val_loss, best) THEN 0 ELSE bad + 1

\* Mutant of ReduceNow: the rate is reduced once the count reaches patience.
ReduceNow_AtPatience(bad, patience) == bad >= patience

\* scheduler.step (line 327): reduce when num_bad_epochs > patience.
ReduceNow(bad, patience) == bad > patience

\* factor=0.5 (line 308).
Halved(rate) == rate \div 2

\* METRICS (lines 36-44), the canonical order.
METRICS ==
  <<"jawline", "cheekbones", "eyes_symmetry", "nose_harmony", "facial_symmetry",
    "skin_quality", "sexual_dimorphism">>

\* NUM_METRICS (line 35).
NUM_METRICS == 7

\* The keys of the dictionary torch.save writes (lines 351-357).
CheckpointKeys ==
  {"epoch", "model_state_dict", "optimizer_state_dict", "val_loss", "val_mae"}

\* val_mae.tolist() (line 356): one error per model output (line 205), each
\* modelled as the epoch's validation loss.
ValMae(val_loss) == [i \in 1..NUM_METRICS |-> val_loss]

\* The dictionary torch.save writes (lines 351-357).
CheckpointRecord(ep, val_loss) ==
  [epoch |-> ep, val_loss |-> val_loss, run |-> "this", keys |-> CheckpointKeys,
   val_mae |-> ValMae(val_loss)]

\* A checkpoint left on disk by an earlier run.
StaleCheckpoint(val_loss) ==
  [epoch |-> 0, val_loss |-> val_loss, run |-> "earlier", keys |-> CheckpointKeys,
   val_mae |-> ValMae(val_loss)]

\* The split part of the state while another component is examined.
IdleSplit ==
  /\ split_pc = "done"
  /\ run = 1
  /\ rng = 0
  /\ entries = <<>>
  /\ image_paths = <<>>
  /\ train_paths = <<>>
  /\ val_paths = <<>>
  /\ prev_split = <<>>

\* The dataset adapter part of the state while another component is examined.
IdleItem ==
  /\ item_pc = "returned"
  /\ scores_dict = <<>>
  /\ image_decodes = TRUE
  /\ labels = <<>>

\* The data pass part of the state while another component is examined.
IdlePass ==
  /\ pass_pc = "completed"
  /\ pass_items = <<>>
  /\ batch_size = 1
  /\ pass_next = 1
  /\ pass_seen = {}

\* No response sent yet.
NoResponse == [endpoint |-> "none", status |-> 0, model_loaded |-> FALSE]

\* No scoring response sent yet.
NoScoreResponse ==
  [endpoint |-> "none", frontal |-> "none", side |-> "none", during_load |-> FALSE,
   status |-> 0, detail |-> "", scores |-> <<>>, modelVersion |-> ""]

\* No scoring request has arrived or been answered.
IdleReq ==
  /\ req = <<>>
  /\ score_resp = NoScoreResponse
  /\ prev_ok = <<>>

\* The preprocessing part of the state while another component is examined.
IdlePre ==
  /\ pre_pc = "idle"
  /\ pre_site = "none"
  /\ pre_source = <<>>
  /\ pre_image = <<>>
  /\ pre_applied = <<>>

\* No API call has been made yet.
NoOutcome == [kind |-> "none", form |-> "", data |-> <<>>]

\* The labelling part of the state while another component is examined.
IdleLab ==
  /\ lab_script = "none"
  /\ main_pc = "none"
  /\ remaining = 0
  /\ img_i = 0
  /\ lab_pc = "idle"
  /\ max_retries = 0
  /\ attempt = 0
  /\ api_calls = 0
  /\ sleeps = <<>>
  /\ raw = NoOutcome
  /\ lab_scores = <<>>
  /\ completed = <<>>
  /\ failed = <<>>
  /\ saved = FALSE

\* The checkpoint writer part of the state while another component is examined.
IdleWr ==
  /\ save_pc = "idle"
  /\ saves_done = 0

\* The evaluator part of the state while another component is examined.
IdleEval ==
  /\ eval_pc = "idle"
  /\ eval_entry = "none"
  /\ eval_ckpt = "absent"
  /\ image_exists = FALSE
  /\ test_images = 0
  /\ sample_i = 0
  /\ total_errors = <<>>
  /\ eval_verdict = "none"
  /\ eval_result = "none"

\* The service part of the state while another component is examined.
IdleSvc ==
  /\ svc_pc = "serving"
  /\ disk = <<>>
  /\ model = "None"
  /\ model_path = 0
  /\ resp = NoResponse
  /\ IdleReq

\* Lines 311-314: the state main() holds when it enters the epoch loop.
TrainerStart ==
  /\ pc = "loop"
  /\ epoch = 0
  /\ best_val_loss = PosInf
  /\ patience_counter = 0
  /\ history = <<>>
  /\ writes = <<>>
  /\ onnx = "none"
  /\ config = "none"
  /\ sched_best = PosInf
  /\ num_bad_epochs = 0
  /\ lr = LEARNING_RATE

\* One iteration of the epoch loop (lines 319-365): train, validate, record
\* history, save on improvement, count patience, break on early stopping.
Epoch ==
  /\ pc = "loop"
  /\ epoch < NUM_EPOCHS
  /\ \E train_loss \in train_domain, val_loss \in val_domain :
       LET improved == Improved(val_loss, best_val_loss)
           counter == CounterAfter(val_loss, best_val_loss, patience_counter)
       IN /\ history' = Append(history, [train_loss |-> train_loss, val_loss |-> val_loss])
          /\ best_val_loss' = BestAfter(val_loss, best_val_loss)
          /\ patience_counter' = counter
          /\ checkpoint' = IF improved THEN <<CheckpointRecord(epoch, val_loss)>>
                           ELSE checkpoint
          /\ writes' = IF improved THEN Append(writes, CheckpointRecord(epoch, val_loss))
                       ELSE writes
          /\ epoch' = epoch + 1
          /\ pc' = IF ShouldStop(counter, PATIENCE) \/ epoch + 1 >= NUM_EPOCHS
                   THEN "plot" ELSE "loop"
          /\ LET bad == BadEpochsWith(val_loss, sched_best, num_bad_epochs)
             IN /\ sched_best' = SchedBestAfter(val_loss, sched_best)
                /\ num_bad_epochs' = IF ReduceNow(bad, sched_patience) THEN 0 ELSE bad
                /\ lr' = IF ReduceNow(bad, sched_patience) THEN Halved(lr) ELSE lr
  /\ UNCHANGED <<PATIENCE, NUM_EPOCHS, train_domain, val_domain, onnx, config,
                 sched_patience>>
  /\ UNCHANGED nonTrainVars

\* Line 368: plot_training_history, the first step after the loop.
PlotHistory ==
  /\ pc = "plot"
  /\ pc' = "load_best"
  /\ UNCHANGED <<PATIENCE, NUM_EPOCHS, train_domain, val_domain, epoch, best_val_loss,
                 patience_counter, history, checkpoint, writes, onnx, config>>
  /\ UNCHANGED schedVars
  /\ UNCHANGED nonTrainVars

\* Lines 375-376: torch.load of best_model.pth; raises when the file is absent.
LoadBest ==
  /\ pc = "load_best"
  /\ pc' = IF checkpoint = <<>> THEN "crashed" ELSE "export"
  /\ UNCHANGED <<PATIENCE, NUM_EPOCHS, train_domain, val_domain, epoch, best_val_loss,
                 patience_counter, history, checkpoint, writes, onnx, config>>
  /\ UNCHANGED schedVars
  /\ UNCHANGED nonTrainVars

\* Mutant of AfterExport: the export's exception leaves main().
AfterExport_Raises(ok) == IF ok THEN "config" ELSE "crashed"

\* Lines 390-409: torch.onnx.export inside try / except Exception; main()
\* goes on to the configuration file whether or not the export raised.
AfterExport(ok) == "config"

\* Lines 385-409: the export succeeds (line 405) or raises and the failure is
\* printed (lines 406-409).
ExportOnnx ==
  /\ pc = "export"
  /\ \E ok \in BOOLEAN :
       /\ onnx' = IF ok THEN "saved" ELSE "failed"
       /\ pc' = AfterExport(ok)
  /\ UNCHANGED <<PATIENCE, NUM_EPOCHS, train_domain, val_domain, epoch, best_val_loss,
                 patience_counter, history, checkpoint, writes, config>>
  /\ UNCHANGED schedVars
  /\ UNCHANGED nonTrainVars

\* Lines 411-428: model_config.json is written.
SaveConfig ==
  /\ pc = "config"
  /\ config' = "written"
  /\ pc' = "done"
  /\ UNCHANGED <<PATIENCE, NUM_EPOCHS, train_domain, val_domain, epoch, best_val_loss,
                 patience_counter, history, checkpoint, writes, onnx>>
  /\ UNCHANGED schedVars
  /\ UNCHANGED nonTrainVars

NextTrain == Epoch \/ PlotHistory \/ LoadBest \/ ExportOnnx \/ SaveConfig

\* ------------------------------------------------------------------ trainer: Init

GeneralValLosses == {Fin(20), Fin(25), Fin(30), NaN, PosInf}
GeneralTrainLosses == {Fin(10), NaN}

InitTrain ==
  /\ PATIENCE \in 1..MaxPatience
  /\ NUM_EPOCHS \in 1..MaxEpochs
  /\ train_domain = GeneralTrainLosses
  /\ val_domain = GeneralValLosses
  /\ checkpoint \in {<<>>, <<StaleCheckpoint(Fin(25))>>}
  /\ sched_patience = SCHED_PATIENCE
  /\ TrainerStart
  /\ IdleSplit
  /\ IdleItem
  /\ IdlePass
  /\ IdleSvc
  /\ IdleEval
  /\ IdlePre
  /\ IdleLab
  /\ IdleWr

SpecTrain == InitTrain /\ [][NextTrain]_vars

\* The loop body is straight-line Python: an enabled step is eventually taken.
SpecTrainFair == SpecTrain /\ WF_vars(NextTrain)

\* The two scripted validation-loss runs of the testable properties, as the
\* values validate may return; the training loss stays finite.
CkptScenario == <<Fin(30), Fin(25), Fin(27), Fin(20)>>
StopScenario == <<Fin(50), Fin(40), Fin(41), Fin(42), Fin(43)>>

Range(s) == {s[i] : i \in 1..Len(s)}

InitScenario ==
  /\ PATIENCE \in 1..MaxPatience
  /\ NUM_EPOCHS = ScenarioEpochs
  /\ train_domain = {Fin(10)}
  /\ val_domain \in {Range(CkptScenario), Range(StopScenario)}
  /\ checkpoint = <<>>
  /\ sched_patience = SCHED_PATIENCE
  /\ TrainerStart
  /\ IdleSplit
  /\ IdleItem
  /\ IdlePass
  /\ IdleSvc
  /\ IdleEval
  /\ IdlePre
  /\ IdleLab
  /\ IdleWr

SpecScenario == InitScenario /\ [][NextTrain]_vars

\* The validation losses of the scheduler specification, in units of 1e-5:
\* 0.30000, 0.29999 (lower, but by less than the scheduler's threshold),
\* 0.20000, and NaN.
SchedValLosses == {Fin(30000), Fin(29999), Fin(20000), NaN}

\* Runs with a small scheduler patience, so that reductions happen within
\* the epoch budget, with and without early stopping on the way.
InitSched ==
  /\ PATIENCE \in {MaxSchedPatience, SchedEpochs}
  /\ NUM_EPOCHS = SchedEpochs
  /\ train_domain = {Fin(10)}
  /\ val_domain = SchedValLosses
  /\ checkpoint = <<>>
  /\ sched_patience \in 1..MaxSchedPatience
  /\ TrainerStart
  /\ IdleSplit
  /\ IdleItem
  /\ IdlePass
  /\ IdleSvc
  /\ IdleEval
  /\ IdlePre
  /\ IdleLab
  /\ IdleWr

SpecSched == InitSched /\ [][NextTrain]_vars

\* ------------------------------------------------------------------ trainer: claims

ValLossesOf(h) == [i \in 1..Len(h) |-> h[i].val_loss]
WriteLosses == [i \in 1..Len(writes) |-> writes[i].val_loss]
WriteEpochs == {writes[i].epoch : i \in 1..Len(writes)}

MinOf(S) == CHOOSE m \in S : \A x \in S : m <= x

\* The lowest finite validation loss among the epochs before epoch i of h
\* (1-based), +infinity when there is none.
BestBefore(h, i) ==
  LET seen == {h[j].val_loss.v : j \in {j \in 1..(i - 1) : IsFinite(h[j].val_loss)}}
  IN IF seen = {} THEN PosInf ELSE Fin(MinOf(seen))

\* Epoch i of h has a validation loss strictly lower than the best before it.
StrictlyBetter(h, i) == Lt(h[i].val_loss, BestBefore(h, i))

\* The number of epochs run since the last strictly better epoch.
EpochsSinceImprovement(h) ==
  LET better == {i \in 1..Len(h) : StrictlyBetter(h, i)}
  IN IF better = {} THEN Len(h)
     ELSE Len(h) - (CHOOSE m \in better : \A x \in better : x <= m)

\* C1: within one run every checkpoint write stores a validation loss
\* strictly lower than the loss of every earlier write of that run, and an
\* epoch whose validation loss is equal to or higher than the best seen so
\* far writes no checkpoint.
C1_WritesStrictlyDecrease ==
  /\ \A i, j \in 1..Len(writes) :
       i < j => Lt(writes[j].val_loss, writes[i].val_loss)
  /\ \A i \in 1..Len(history) :
       ~Lt(history[i].val_loss, BestBefore(history, i)) => (i - 1) \notin WriteEpochs

\* C1 witness: two writes happened and a later epoch repeated the best loss
\* exactly, without a write.
C1_Witness ==
  /\ Len(writes) >= 2
  /\ \E i \in 1..Len(history) :
       /\ history[i].val_loss = BestBefore(history, i)
       /\ IsFinite(history[i].val_loss)
       /\ (i - 1) \notin WriteEpochs

\* C2 (as claimed): for validation losses [0.30, 0.25, 0.27, 0.20] exactly two
\* checkpoint writes occur, at the losses 0.30 and 0.20.
C2_TwoWrites ==
  ValLossesOf(history) = CkptScenario => WriteLosses = <<Fin(30), Fin(20)>>

\* C2 (amended): for validation losses [0.30, 0.25, 0.27, 0.20] exactly three
\* checkpoint writes occur, at the epochs with losses 0.30, 0.25 and 0.20, and
\* none at the epoch with loss 0.27.
C2_ThreeWrites ==
  ValLossesOf(history) = CkptScenario =>
    /\ WriteLosses = <<Fin(30), Fin(25), Fin(20)>>
    /\ WriteEpochs = {0, 1, 3}

\* C2 witness: the run has produced exactly the four scripted losses.
C2_Witness == ValLossesOf(history) = CkptScenario /\ Len(writes) = 3

\* C3: with patience 3 and validation losses [0.5, 0.4, 0.41, 0.42, 0.43] the
\* loop is still running after each of the first four epochs and has stopped,
\* by early stopping and within the epoch budget, right after the fifth.
C3_StopsAfterFifth ==
  \A n \in 1..Len(StopScenario) :
    (PATIENCE = 3 /\ ValLossesOf(history) = SubSeq(StopScenario, 1, n)) =>
      /\ n < 5 => pc = "loop"
      /\ n = 5 => /\ pc # "loop"
                  /\ epoch = 5
                  /\ epoch < NUM_EPOCHS
                  /\ patience_counter = 3

\* C3 witness: the scripted run has just left the loop.
C3_Witness ==
  PATIENCE = 3 /\ ValLossesOf(history) = StopScenario /\ pc = "plot"

LoopExitDue == patience_counter >= PATIENCE \/ epoch >= NUM_EPOCHS

\* C4: for every loss sequence the epoch loop terminates; it keeps running
\* exactly while the patience counter is below the threshold and the epoch
\* budget is not used up, and when it stops it goes on to the export/summary
\* phase (the plot step), never to an error.
C4_LoopTerminates ==
  /\ <>(pc # "loop")
  /\ [][pc = "loop" =>
          \/ pc' = "loop" /\ ~LoopExitDue'
          \/ pc' = "plot" /\ LoopExitDue']_vars

\* C4 witness: the loop has stopped by early stopping with budget left.
C4_Witness ==
  pc = "plot" /\ patience_counter >= PATIENCE /\ epoch < NUM_EPOCHS

\* C5: after every epoch the patience counter is the number of epochs since
\* the last strictly better epoch, it lies between 0 and the threshold, and
\* the checkpoint writes are exactly the strictly better epochs (an equal
\* loss writes nothing).
C5_PatienceCounts ==
  /\ patience_counter = EpochsSinceImprovement(history)
  /\ 0 <= patience_counter /\ patience_counter <= PATIENCE
  /\ WriteEpochs = {i - 1 : i \in {i \in 1..Len(history) : StrictlyBetter(history, i)}}
  /\ Len(writes) = Cardinality(WriteEpochs)

\* C5 witness: an improvement, then an equal loss and a higher loss, counted 2.
C5_Witness ==
  /\ Len(history) = 3
  /\ Len(writes) = 1
  /\ history[2].val_loss = history[1].val_loss
  /\ patience_counter = 2

NonFiniteEpoch(h, i) == ~IsFinite(h[i].train_loss) \/ ~IsFinite(h[i].val_loss)

\* C6: an epoch whose training or validation loss is non-finite is the last
\* epoch run (training has halted) and writes no checkpoint.
C6_HaltsOnNonFinite ==
  \A i \in 1..Len(history) :
    NonFiniteEpoch(history, i) =>
      /\ i = Len(history)
      /\ pc # "loop"
      /\ (i - 1) \notin WriteEpochs

\* ------------------------------------------------------------------ split

\* Most image files of one run.
MaxEntries == 5
\* Number of states of the modelled random generator.
RngModulus == 16
\* SEED (line 55).
SEED == 42
\* VAL_SPLIT (line 52), in percent.
VAL_SPLIT == 20

\* The trainer part of the state while another component is examined.
IdleTrain ==
  /\ PATIENCE = 1
  /\ NUM_EPOCHS = 1
  /\ train_domain = {}
  /\ val_domain = {}
  /\ pc = "idle"
  /\ epoch = 0
  /\ best_val_loss = PosInf
  /\ patience_counter = 0
  /\ history = <<>>
  /\ checkpoint = <<>>
  /\ writes = <<>>
  /\ onnx = "none"
  /\ config = "none"
  /\ sched_patience = 0
  /\ sched_best = PosInf
  /\ num_bad_epochs = 0
  /\ lr = 0

\* Mutant of SeededRng: the seed is not applied.
SeededRng_Unseeded(seed, old) == old

\* random.seed(seed) (line 58): the generator state is a function of the seed
\* alone.
SeededRng(seed, old) == seed % RngModulus

\* One draw advances the generator deterministically.
RngStep(s) == (s * 5 + 3) % RngModulus

Swap(x, i, j) == [x EXCEPT ![i] = x[j], ![j] = x[i]]

\* random.shuffle(x) (line 272): for each position p from the last down to the
\* second, swap x[p] with x[j], j drawn below p.  Returns the list and the
\* generator state after the draws.
RECURSIVE ShuffleFrom(_, _, _)
ShuffleFrom(x, p, s) ==
  IF p < 2 THEN [list |-> x, rng |-> s]
  ELSE LET s1 == RngStep(s)
           j == (s1 % p) + 1
       IN ShuffleFrom(Swap(x, p, j), p - 1, s1)

Shuffle(x, s) == ShuffleFrom(x, Len(x), s)

\* Line 273: int(len(image_paths) * (1 - VAL_SPLIT)).
SplitIdx(n) == (n * (100 - VAL_SPLIT)) \div 100

\* Line 247: set_seed(SEED).
SetSeed ==
  /\ split_pc = "start"
  /\ rng' = SeededRng(SEED, rng)
  /\ split_pc' = "find"
  /\ UNCHANGED <<run, entries, image_paths, train_paths, val_paths, prev_split>>
  /\ UNCHANGED nonSplitVars

\* Lines 263-269: list the images that have scores; return when there are none.
FindImages ==
  /\ split_pc = "find"
  /\ image_paths' = entries
  /\ split_pc' = IF Len(entries) = 0 THEN "no_images" ELSE "shuffle"
  /\ UNCHANGED <<run, rng, entries, train_paths, val_paths, prev_split>>
  /\ UNCHANGED nonSplitVars

\* Line 272: random.shuffle(image_paths).
ShufflePaths ==
  /\ split_pc = "shuffle"
  /\ image_paths' = Shuffle(image_paths, rng).list
  /\ rng' = Shuffle(image_paths, rng).rng
  /\ split_pc' = "split"
  /\ UNCHANGED <<run, entries, train_paths, val_paths, prev_split>>
  /\ UNCHANGED nonSplitVars

\* Lines 273-275: slice the shuffled list at split_idx.
SplitPaths ==
  /\ split_pc = "split"
  /\ LET split_idx == SplitIdx(Len(image_paths))
     IN /\ train_paths' = SubSeq(image_paths, 1, split_idx)
        /\ val_paths' = SubSeq(image_paths, split_idx + 1, Len(image_paths))
  /\ split_pc' = "done"
  /\ UNCHANGED <<run, rng, entries, image_paths, prev_split>>
  /\ UNCHANGED nonSplitVars

Reorderings(x) ==
  {y \in [1..Len(x) -> Range(x)] : \A i, j \in 1..Len(x) : i # j => y[i] # y[j]}

\* A second trainer process starts after the first: its generator starts in
\* any state, and glob may list the same files in any order.
SecondRun ==
  /\ split_pc \in {"done", "no_images"}
  /\ run = 1
  /\ run' = 2
  /\ prev_split' = <<[entries |-> entries, train |-> train_paths, val |-> val_paths]>>
  /\ rng' \in 0..(RngModulus - 1)
  /\ entries' \in Reorderings(entries)
  /\ image_paths' = <<>>
  /\ train_paths' = <<>>
  /\ val_paths' = <<>>
  /\ split_pc' = "start"
  /\ UNCHANGED nonSplitVars

NextSplit == SetSeed \/ FindImages \/ ShufflePaths \/ SplitPaths \/ SecondRun

InitSplit ==
  /\ split_pc = "start"
  /\ run = 1
  /\ rng \in 0..(RngModulus - 1)
  /\ \E n \in 0..MaxEntries : entries = [i \in 1..n |-> i]
  /\ image_paths = <<>>
  /\ train_paths = <<>>
  /\ val_paths = <<>>
  /\ prev_split = <<>>
  /\ IdleTrain
  /\ IdleItem
  /\ IdlePass
  /\ IdleSvc
  /\ IdleEval
  /\ IdlePre
  /\ IdleLab
  /\ IdleWr

SpecSplit == InitSplit /\ [][NextSplit]_vars

\* C7: when the split is done, every entry is in exactly one of train and
\* validation, the two are the slices of the seeded shuffle of the full list,
\* and a second run with the same entry ordering yields the same two lists.
C7_SplitPartitions ==
  split_pc = "done" =>
    /\ Range(train_paths) \cup Range(val_paths) = Range(entries)
    /\ Range(train_paths) \cap Range(val_paths) = {}
    /\ Len(train_paths) + Len(val_paths) = Len(entries)
    /\ train_paths \o val_paths = Shuffle(entries, SEED % RngModulus).list
    /\ Len(train_paths) = SplitIdx(Len(entries))
    /\ (run = 2 /\ prev_split[1].entries = entries) =>
         (train_paths = prev_split[1].train /\ val_paths = prev_split[1].val)

\* C7 witness: the second run, started from a different generator state on
\* the same entry ordering, has split the full list into two non-empty parts.
C7_Witness ==
  /\ split_pc = "done"
  /\ run = 2
  /\ prev_split[1].entries = entries
  /\ Len(entries) = MaxEntries
  /\ train_paths # <<>> /\ val_paths # <<>>
  /\ image_paths # entries

\* ------------------------------------------------------------------ dataset adapter

\* The scores a label record may hold for one metric (integers 0..100).
ScoreValues == {0, 73, 100}

\* The file __getitem__ is asked for.
Filename == "a.jpg"

\* Line 89: the default of scores.get(m, 50).
DefaultScore == 50

\* dict.get(key, default).
Get(d, key, default) == IF key \in DOMAIN d THEN d[key] ELSE default

\* Line 89: x / 100.0, kept as the exact fraction num/den.
Div100(x) == [num |-> x, den |-> 100]

\* Mutant of LabelsFor: a missing metric defaults to 0.
LabelsFor_ZeroDefault(dict, filename) ==
  LET scores == Get(dict, filename, <<>>)
  IN [i \in 1..Len(METRICS) |-> Div100(Get(scores, METRICS[i], 0))]

\* Lines 87-91: the label vector for one file.
LabelsFor(dict, filename) ==
  LET scores == Get(dict, filename, <<>>)
  IN [i \in 1..Len(METRICS) |-> Div100(Get(scores, METRICS[i], DefaultScore))]

\* __getitem__ (lines 77-93): open and convert the image, which raises when it
\* cannot be decoded, then build the label vector.
GetItem ==
  /\ item_pc = "ready"
  /\ IF image_decodes
     THEN /\ labels' = LabelsFor(scores_dict, Filename)
          /\ item_pc' = "returned"
     ELSE /\ labels' = labels
          /\ item_pc' = "raised"
  /\ UNCHANGED <<scores_dict, image_decodes>>
  /\ UNCHANGED nonItemVars

NextItem == GetItem

\* Every record over any subset of the metric keys.
ScoreRecords ==
  UNION {[S -> ScoreValues] : S \in SUBSET Range(METRICS)}

InitItem ==
  /\ item_pc = "ready"
  /\ \/ scores_dict = <<>>
     \/ \E r \in ScoreRecords : scores_dict = [f \in {Filename} |-> r]
  /\ image_decodes \in BOOLEAN
  /\ labels = <<>>
  /\ IdleTrain
  /\ IdleSplit
  /\ IdlePass
  /\ IdleSvc
  /\ IdleEval
  /\ IdlePre
  /\ IdleLab
  /\ IdleWr

SpecItem == InitItem /\ [][NextItem]_vars

\* C8: the label vector returned has exactly 7 entries, in canonical metric
\* order, each in [0,1], equal to score/100 for a metric the record holds and
\* exactly 0.5 for a metric it lacks (also when the file has no record).
C8_LabelVector ==
  item_pc = "returned" =>
    /\ Len(labels) = 7
    /\ \A i \in 1..7 :
         /\ 0 <= labels[i].num /\ labels[i].num <= labels[i].den
         /\ IF Filename \in DOMAIN scores_dict /\ METRICS[i] \in DOMAIN scores_dict[Filename]
            THEN labels[i].num * 100 = scores_dict[Filename][METRICS[i]] * labels[i].den
            ELSE 2 * labels[i].num = labels[i].den

\* C8 witness: a record holding some metrics and lacking others was converted.
C8_Witness ==
  /\ item_pc = "returned"
  /\ Filename \in DOMAIN scores_dict
  /\ DOMAIN scores_dict[Filename] = {"jawline", "skin_quality"}
  /\ scores_dict[Filename]["jawline"] = 73
  /\ labels[1].num = 73
  /\ labels[2].num = 50

\* ------------------------------------------------------------------ data pass

\* Most items of the dataset of one pass.
MaxItems == 4
\* Largest batch size drawn in Init (BATCH_SIZE, line 47, scaled down).
MaxBatch == 2

\* The indices of the batch starting at index first.
BatchAt(first, size, n) == {i \in first..(first + size - 1) : i <= n}

\* One step of "for images, labels, _ in loader" (lines 168 and 190): the
\* loader calls __getitem__ for every index of the batch; an exception
\* raised there leaves the loop, train_epoch / validate and main, none of
\* which catches it.
NextBatch ==
  /\ pass_pc = "iterating"
  /\ LET batch == BatchAt(pass_next, batch_size, Len(pass_items))
     IN IF batch = {}
        THEN /\ pass_pc' = "completed"
             /\ UNCHANGED <<pass_next, pass_seen>>
        ELSE IF \E i \in batch : ~pass_items[i]
        THEN /\ pass_pc' = "raised"
             /\ UNCHANGED <<pass_next, pass_seen>>
        ELSE /\ pass_seen' = pass_seen \cup batch
             /\ pass_next' = pass_next + batch_size
             /\ pass_pc' = "iterating"
  /\ UNCHANGED <<pass_items, batch_size>>
  /\ UNCHANGED nonPassVars

NextPass == NextBatch

InitPass ==
  /\ pass_pc = "iterating"
  /\ \E n \in 1..MaxItems : pass_items \in [1..n -> BOOLEAN]
  /\ batch_size \in 1..MaxBatch
  /\ pass_next = 1
  /\ pass_seen = {}
  /\ IdleTrain
  /\ IdleSplit
  /\ IdleItem
  /\ IdleSvc
  /\ IdleEval
  /\ IdlePre
  /\ IdleLab
  /\ IdleWr

SpecPass == InitPass /\ [][NextPass]_vars

\* C9: an image that cannot be decoded does not abort the pass: the pass
\* never ends by an exception, and a completed pass has gone over every
\* decodable item.
C9_PassSkipsBadImage ==
  /\ pass_pc # "raised"
  /\ pass_pc = "completed" =>
       pass_seen = {i \in 1..Len(pass_items) : pass_items[i]}

\* ------------------------------------------------------------------ inference service

\* The number of entries of possible_paths (lines 109-114).
NumPaths == 4

FileStates == {"absent", "good", "unreadable", "incompatible"}

\* Lines 116-121: the first path that exists, 0 (None) when there is none.
FirstExisting(d) ==
  LET found == {i \in 1..NumPaths : d[i] # "absent"}
  IN IF found = {} THEN 0 ELSE CHOOSE i \in found : \A j \in found : i <= j

\* Lines 192-197: startup_event catches what load_model raises and lets the
\* application start.
StartupAfterFailure == "serving"

\* Mutant of HealthStatus: the model slot is not tested.
HealthStatus_AlwaysOk(m) == 200

\* Lines 203-212: 503 when model is None, else 200.
HealthStatus(m) == IF m = "None" THEN 503 ELSE 200

\* Mutant of AlreadyLoaded: the cached instance is not used.
AlreadyLoaded_Ignored(m) == FALSE

\* Line 105: if model is not None.
AlreadyLoaded(m) == m # "None"

\* load_model up to the path search (lines 105-125), called by startup_event.
LoadModelSearch ==
  /\ svc_pc \in {"startup", "recall"}
  /\ IF AlreadyLoaded(model)
     THEN /\ svc_pc' = "serving"
          /\ UNCHANGED model_path
     ELSE /\ model_path' = FirstExisting(disk)
          /\ svc_pc' = IF FirstExisting(disk) = 0 THEN StartupAfterFailure ELSE "create"
  /\ UNCHANGED <<disk, model, resp>>
  /\ UNCHANGED reqVars
  /\ UNCHANGED nonSvcVars

\* Line 129: model = FacialScoreModel(pretrained=False), assigned to the global.
LoadModelCreate ==
  /\ svc_pc = "create"
  /\ model' = "fresh"
  /\ svc_pc' = "read"
  /\ UNCHANGED <<disk, model_path, resp>>
  /\ UNCHANGED reqVars
  /\ UNCHANGED nonSvcVars

\* Lines 132-135 and 144-146: torch.load and load_state_dict; either may
\* raise, and the exception is re-raised to startup_event.
LoadModelRead ==
  /\ svc_pc = "read"
  /\ svc_pc' = IF disk[model_path] = "good" THEN "finish" ELSE StartupAfterFailure
  /\ UNCHANGED <<disk, model, model_path, resp>>
  /\ UNCHANGED reqVars
  /\ UNCHANGED nonSvcVars

\* Lines 138-143: the model now holds the checkpoint's parameters.
LoadModelFinish ==
  /\ svc_pc = "finish"
  /\ model' = "loaded"
  /\ svc_pc' = "serving"
  /\ UNCHANGED <<disk, model_path, resp>>
  /\ UNCHANGED reqVars
  /\ UNCHANGED nonSvcVars

\* GET /health (lines 199-212).
Health ==
  /\ svc_pc = "serving"
  /\ resp' = [endpoint |-> "health", status |-> HealthStatus(model),
              model_loaded |-> (HealthStatus(model) = 200)]
  /\ UNCHANGED <<svc_pc, disk, model, model_path>>
  /\ UNCHANGED reqVars
  /\ UNCHANGED nonSvcVars

\* Another process (the trainer, an operator) creates, replaces or removes a
\* checkpoint file at one of the searched paths.
DiskChange ==
  /\ \E i \in 1..NumPaths, f \in FileStates :
       /\ disk[i] # f
       /\ disk' = [disk EXCEPT ![i] = f]
  /\ UNCHANGED <<svc_pc, model, model_path, resp>>
  /\ UNCHANGED reqVars
  /\ UNCHANGED nonSvcVars

NextSvc ==
  \/ LoadModelSearch
  \/ LoadModelCreate
  \/ LoadModelRead
  \/ LoadModelFinish
  \/ Health
  \/ DiskChange

\* Lines 86-87: the module is imported with model = None; startup follows.
InitSvc ==
  /\ svc_pc = "startup"
  /\ disk \in [1..NumPaths -> FileStates]
  /\ model = "None"
  /\ model_path = 0
  /\ resp = NoResponse
  /\ IdleReq
  /\ IdleTrain
  /\ IdleSplit
  /\ IdleItem
  /\ IdlePass
  /\ IdleEval
  /\ IdlePre
  /\ IdleLab
  /\ IdleWr

SpecSvc == InitSvc /\ [][NextSvc]_vars

\* load_model found no checkpoint file at any searched path.
NoCheckpointFound == svc_pc # "startup" /\ model_path = 0

ScoreEndpoints == {"/score", "/score/base64", "/score/pair", "/score/pair-bytes"}
Base64Endpoints == {"/score/base64", "/score/pair-bytes"}
PairEndpoints == {"/score/pair", "/score/pair-bytes"}

\* Payloads that decode to an image.
Images == {"img_a", "img_b"}

\* What a request may carry as its (frontal) image: an image, bytes that are
\* no image, and, for the base64 endpoints, text that is not base64.
FrontalPayloads(endpoint) ==
  Images \cup {"not_image"} \cup
    (IF endpoint \in Base64Endpoints THEN {"bad_base64"} ELSE {})

\* What a request carries as its side image.
SidePayloads(endpoint) == IF endpoint \in PairEndpoints THEN Images ELSE {"none"}

\* The forward pass (line 232) of the model after model.eval() (line 139), a
\* function of the image: the 7 sigmoid outputs in thousandths.
EvalForward(image) ==
  IF image = "img_a" THEN <<1, 5, 15, 495, 505, 724, 999>>
  ELSE <<250, 335, 845, 4, 996, 500, 666>>

\* The forward pass of a model that model.eval() was never called on: a new
\* nn.Module is in training mode, its dropout layers (lines 70 and 73) draw
\* from the unseeded generator, so that one image has several outputs.
TrainForward(image) ==
  IF image = "img_a"
  THEN {<<498, 502, 515, 493, 500, 507, 485>>, <<461, 530, 515, 478, 512, 507, 499>>}
  ELSE {<<503, 497, 489, 511, 525, 494, 506>>, <<515, 470, 489, 502, 541, 483, 506>>}

\* The outputs the model in the slot can give for an image.
Forward(m, image) ==
  IF m = "loaded" THEN {EvalForward(image)} ELSE TrainForward(image)

\* Mutant of RoundScore: int(score) without round.
RoundScore_Truncate(out) == out \div 10

\* Lines 235 and 238: int(round(output * 100)) for an output of out/1000;
\* Python rounds a half to the even integer.
RoundScore(out) ==
  LET q == out \div 10
      r == out % 10
  IN IF r < 5 THEN q
     ELSE IF r > 5 THEN q + 1
     ELSE IF q % 2 = 0 THEN q ELSE q + 1

\* Lines 237-240: one integer per metric, zipped with METRICS.
ScoresOf(output) ==
  [name \in Range(METRICS) |->
     RoundScore(output[CHOOSE i \in 1..Len(METRICS) : METRICS[i] = name])]

\* Lines 305-307 and 328-335: the pair endpoints read the frontal image only.
PairInput(frontal, side) == frontal

\* Lines 259-260 (and 286-287, 313-314, 341-342): every exception becomes
\* HTTPException(status_code=500, detail=str(e)).
FailureStatus == 500

Failure(request, detail) ==
  [endpoint |-> request.endpoint, frontal |-> request.frontal, side |-> request.side,
   during_load |-> request.during_load, status |-> FailureStatus, detail |-> detail,
   scores |-> <<>>, modelVersion |-> ""]

\* The outputs the forward pass can give for a request; the empty tuple
\* where the handler fails before it.
OutputsFor(request, m) ==
  IF request.frontal \in Images /\ m # "None"
  THEN Forward(m, PairInput(request.frontal, request.side))
  ELSE {<<>>}

\* One scoring handler, start to end (lines 242-342): decode the base64 text
\* where there is one, open the image, then process_image (lines 219-240).
ScoreHandler(request, m, output) ==
  IF request.endpoint \in Base64Endpoints /\ request.frontal = "bad_base64"
  THEN Failure(request, "Incorrect padding")
  ELSE IF request.frontal \notin Images
  THEN Failure(request, "cannot identify image file")
  ELSE IF m = "None"
  THEN Failure(request, "Model not loaded")
  ELSE [endpoint |-> request.endpoint, frontal |-> request.frontal,
        side |-> request.side, during_load |-> request.during_load,
        status |-> 200, detail |-> "",
        scores |-> ScoresOf(output),
        modelVersion |-> "efficientnet_b0_v1"]

\* What is remembered of an earlier successful response, to compare the next
\* ones with.
Scored(response) ==
  [endpoint |-> response.endpoint, frontal |-> response.frontal,
   side |-> response.side, scores |-> response.scores]

\* A client sends a scoring request; it may do so while startup_event is
\* still running load_model.
Arrive ==
  /\ req = <<>>
  /\ \E endpoint \in ScoreEndpoints :
       \E frontal \in FrontalPayloads(endpoint), side \in SidePayloads(endpoint) :
         req' = <<[endpoint |-> endpoint, frontal |-> frontal, side |-> side,
                   during_load |-> (svc_pc # "serving")]>>
  /\ UNCHANGED <<svc_pc, disk, model, model_path, resp, score_resp, prev_ok>>
  /\ UNCHANGED nonSvcVars

\* The server is not accepting connections before startup has completed: a
\* request sent meanwhile may be refused without any HTTP response.
Refuse ==
  /\ req # <<>>
  /\ svc_pc # "serving"
  /\ req' = <<>>
  /\ UNCHANGED <<svc_pc, disk, model, model_path, resp, score_resp, prev_ok>>
  /\ UNCHANGED nonSvcVars

\* The handler of the waiting request runs; handlers run only once startup
\* has completed.
Score ==
  /\ req # <<>>
  /\ svc_pc = "serving"
  /\ \E output \in OutputsFor(req[1], model) :
       score_resp' = ScoreHandler(req[1], model, output)
  /\ prev_ok' = IF score_resp.status = 200 THEN <<Scored(score_resp)>> ELSE prev_ok
  /\ req' = <<>>
  /\ UNCHANGED <<svc_pc, disk, model, model_path, resp>>
  /\ UNCHANGED nonSvcVars

\* load_model() is called again after startup.
LoadModelAgain ==
  /\ svc_pc = "serving"
  /\ svc_pc' = "recall"
  /\ UNCHANGED <<disk, model, model_path, resp, reqVars>>
  /\ UNCHANGED nonSvcVars

NextScore ==
  \/ LoadModelSearch
  \/ LoadModelCreate
  \/ LoadModelRead
  \/ LoadModelFinish
  \/ LoadModelAgain
  \/ Health
  \/ Arrive
  \/ Refuse
  \/ Score

\* The service starts with at most one checkpoint file, at the first or the
\* last searched path and in any condition, and the files do not change
\* afterwards.
InitScore ==
  /\ svc_pc = "startup"
  /\ \E k \in {1, NumPaths}, f \in FileStates :
       disk = [i \in 1..NumPaths |-> IF i = k THEN f ELSE "absent"]
  /\ model = "None"
  /\ model_path = 0
  /\ resp = NoResponse
  /\ IdleReq
  /\ IdleTrain
  /\ IdleSplit
  /\ IdleItem
  /\ IdlePass
  /\ IdleEval
  /\ IdlePre
  /\ IdleLab
  /\ IdleWr

SpecScore == InitScore /\ [][NextScore]_vars

\* The handlers and load_model are sequential Python: an enabled step of the
\* service is eventually taken.
SpecScoreFair == SpecScore /\ WF_vars(NextScore)

IsScoreResponse == score_resp.endpoint \in ScoreEndpoints

\* C11: a scoring request handled while the model slot is empty gets a
\* model-unavailable response (status 503) that differs from the response to
\* an undecodable image; it is never a generic server error (500).
C11_ModelUnavailable503 ==
  (IsScoreResponse /\ model = "None" /\ score_resp.frontal \in Images) =>
    (score_resp.status = 503 /\ score_resp.status # FailureStatus)

\* load_model found a checkpoint file and then failed to read or apply it.
LoadFailed ==
  /\ svc_pc = "serving"
  /\ model_path # 0
  /\ disk[model_path] # "good"

\* C12: after load_model fails on an existing checkpoint file, the model slot
\* is empty: /health reports not-ready, and no scoring request is answered
\* with predictions.
C12_FailedLoadLeavesSlotEmpty ==
  LoadFailed =>
    /\ model = "None"
    /\ resp.endpoint = "health" => resp.status = 503
    /\ IsScoreResponse => score_resp.status # 200

\* C13: with the model loaded, a scoring request whose payload is undecodable
\* base64 or bytes that are no image gets a client-fault (4xx) response.
C13_MalformedPayloadClientFault ==
  (IsScoreResponse /\ model = "loaded" /\ score_resp.frontal \notin Images) =>
    score_resp.status \in 400..499

\* C14: once load_model has succeeded the instance stays in the model slot;
\* a later load_model call goes back to serving without creating a model or
\* reading the checkpoint, and no step empties the slot.
C14_LoadedInstanceKept ==
  [][/\ model = "loaded" =>
          /\ model' = "loaded"
          /\ svc_pc' \notin {"create", "read", "finish"}
          /\ svc_pc = "recall" => svc_pc' \in {"recall", "serving"}
     /\ model # "None" => model' # "None"]_vars

\* load_model has been called again with the loaded instance in the slot.
C14_Witness ==
  /\ svc_pc = "recall"
  /\ model = "loaded"

\* C15: a scoring request that arrived while load_model was still running is
\* answered with the model-unavailable response (status 503).
C15_DuringLoadUnavailable ==
  (IsScoreResponse /\ score_resp.during_load) => score_resp.status = 503

\* A decodable image has been scored by the model in the slot.
ScoredByModel ==
  /\ IsScoreResponse
  /\ model # "None"
  /\ score_resp.frontal \in Images

\* C16: with the model loaded and a decodable image, the response carries
\* exactly the 7 metric fields, each an integer in 0..100 that is the nearest
\* integer to 100 times the model output of the same index, and a
\* modelVersion string.
C16_SevenRoundedScores ==
  ScoredByModel =>
    /\ score_resp.status = 200
    /\ DOMAIN score_resp.scores = Range(METRICS)
    /\ Cardinality(DOMAIN score_resp.scores) = NUM_METRICS
    /\ \E output \in Forward(model, score_resp.frontal) :
         \A i \in 1..Len(METRICS) :
           LET s == score_resp.scores[METRICS[i]]
           IN /\ s \in 0..100
              /\ 10 * s - output[i] \in -5..5
    /\ score_resp.modelVersion = "efficientnet_b0_v1"

\* An output of 0.999 was scored, next to outputs that lie halfway between
\* two integers once multiplied by 100.
C16_Witness ==
  /\ ScoredByModel
  /\ model = "loaded"
  /\ score_resp.status = 200
  /\ score_resp.scores["sexual_dimorphism"] = 100
  /\ score_resp.scores["nose_harmony"] = 50

\* Two successful responses in a row for the same frontal image, at least one
\* of them from a two-image endpoint.
SameFrontalPair ==
  /\ IsScoreResponse
  /\ score_resp.status = 200
  /\ prev_ok # <<>>
  /\ prev_ok[1].frontal = score_resp.frontal
  /\ score_resp.endpoint \in PairEndpoints \/ prev_ok[1].endpoint \in PairEndpoints

\* C17: the two-image endpoints answer from the frontal image only: for the
\* same frontal image the scores are the same whatever the side image, and
\* the same as the single-image endpoints give.
C17_SideImageIgnored ==
  SameFrontalPair => score_resp.scores = prev_ok[1].scores

\* ------------------------------------------------------------------ evaluator

\* The absolute errors |gt - pred| of one sample (lines 168-173), in points,
\* by index of METRICS.
ErrorVectors ==
  {[i \in 1..NUM_METRICS |-> 0],
   [i \in 1..NUM_METRICS |-> 8],
   [i \in 1..NUM_METRICS |-> 10],
   [i \in 1..NUM_METRICS |-> 12],
   [i \in 1..NUM_METRICS |-> IF i = 1 THEN 60 ELSE 0]}

RECURSIVE SumSeq(_)
\* sum(total_errors.values()) (line 214).
SumSeq(seq) == IF seq = <<>> THEN 0 ELSE Head(seq) + SumSeq(Tail(seq))

\* Line 209: the status of one metric, from mean_error = total / n.
MeanStatus(total, n) ==
  IF total < 10 * n THEN "PASS"
  ELSE IF total < 15 * n THEN "WARN"
  ELSE "FAIL"

\* Lines 205-211.
AllPassed(totals, n) ==
  \A i \in 1..NUM_METRICS : MeanStatus(totals[i], n) # "FAIL"

\* Lines 214-231: overall_mean = sum / (len(METRICS) * n) against 8, 10, 12.
Verdict(totals, n) ==
  LET sum == SumSeq(totals)
      count == NUM_METRICS * n
  IN IF sum < 8 * count THEN "pass_excellent"
     ELSE IF sum < 10 * count THEN "pass"
     ELSE IF sum < 12 * count THEN "warn"
     ELSE "fail"

\* Lines 222, 225, 228, 231.
TestPassed(verdict) == verdict # "fail"

\* Mutant of RunTestsReturn: a failed metric fails the run.
RunTestsReturn_AllPassed(test_passed, all_passed) == test_passed /\ all_passed

\* Line 236: return test_passed.
RunTestsReturn(test_passed, all_passed) == test_passed

BoolStr(b) == IF b THEN "True" ELSE "False"

\* run_tests, lines 123-127.
RunTestsCheck ==
  /\ eval_pc = "start"
  /\ eval_entry = "run_tests"
  /\ IF eval_ckpt = "absent"
     THEN /\ eval_result' = "False"
          /\ eval_pc' = "done"
     ELSE /\ eval_pc' = "load"
          /\ UNCHANGED eval_result
  /\ UNCHANGED <<eval_entry, eval_ckpt, image_exists, test_images, sample_i,
                 total_errors, eval_verdict>>
  /\ UNCHANGED nonEvalVars

\* test_single_image, lines 245-248.
TestSingleCheck ==
  /\ eval_pc = "start"
  /\ eval_entry = "test_single_image"
  /\ IF ~image_exists
     THEN /\ eval_result' = "None"
          /\ eval_pc' = "done"
     ELSE /\ eval_pc' = "load"
          /\ UNCHANGED eval_result
  /\ UNCHANGED <<eval_entry, eval_ckpt, image_exists, test_images, sample_i,
                 total_errors, eval_verdict>>
  /\ UNCHANGED nonEvalVars

\* load_model (lines 86-101), called at line 134 or 251: torch.load and
\* load_state_dict raise on a missing, unreadable or incompatible file, and
\* nothing catches the exception.
EvalLoadModel ==
  /\ eval_pc = "load"
  /\ eval_pc' = IF eval_ckpt # "good" THEN "crashed"
                ELSE IF eval_entry = "run_tests" THEN "sample"
                ELSE "predict"
  /\ UNCHANGED <<eval_entry, eval_ckpt, image_exists, test_images, sample_i,
                 total_errors, eval_verdict, eval_result>>
  /\ UNCHANGED nonEvalVars

\* Lines 144-157: the test images are sampled, none when no image has a label.
SampleImages ==
  /\ eval_pc = "sample"
  /\ \E n \in 0..MaxSamples : test_images' = n
  /\ total_errors' = [i \in 1..NUM_METRICS |-> 0]
  /\ eval_pc' = "loop"
  /\ UNCHANGED <<eval_entry, eval_ckpt, image_exists, sample_i, eval_verdict,
                 eval_result>>
  /\ UNCHANGED nonEvalVars

\* One iteration of the loop of lines 161-195.
PredictSample ==
  /\ eval_pc = "loop"
  /\ sample_i < test_images
  /\ \E errors \in ErrorVectors :
       total_errors' = [i \in 1..NUM_METRICS |-> total_errors[i] + errors[i]]
  /\ sample_i' = sample_i + 1
  /\ UNCHANGED <<eval_pc, eval_entry, eval_ckpt, image_exists, test_images,
                 eval_verdict, eval_result>>
  /\ UNCHANGED nonEvalVars

\* Lines 197-236; line 207 divides by len(test_images).
Summary ==
  /\ eval_pc = "loop"
  /\ sample_i = test_images
  /\ IF test_images = 0
     THEN /\ eval_pc' = "crashed"
          /\ UNCHANGED <<eval_verdict, eval_result>>
     ELSE /\ eval_verdict' = Verdict(total_errors, test_images)
          /\ eval_result' =
               BoolStr(RunTestsReturn(TestPassed(Verdict(total_errors, test_images)),
                                      AllPassed(total_errors, test_images)))
          /\ eval_pc' = "done"
  /\ UNCHANGED <<eval_entry, eval_ckpt, image_exists, test_images, sample_i,
                 total_errors>>
  /\ UNCHANGED nonEvalVars

\* test_single_image, lines 254-261.
PredictSingle ==
  /\ eval_pc = "predict"
  /\ eval_result' = "predictions"
  /\ eval_pc' = "done"
  /\ UNCHANGED <<eval_entry, eval_ckpt, image_exists, test_images, sample_i,
                 total_errors, eval_verdict>>
  /\ UNCHANGED nonEvalVars

NextEval ==
  \/ RunTestsCheck
  \/ TestSingleCheck
  \/ EvalLoadModel
  \/ SampleImages
  \/ PredictSample
  \/ Summary
  \/ PredictSingle

\* Lines 264-273: one of the two entry points is called, with the checkpoint
\* file in any condition.
InitEval ==
  /\ eval_pc = "start"
  /\ eval_entry \in {"run_tests", "test_single_image"}
  /\ eval_ckpt \in FileStates
  /\ image_exists \in BOOLEAN
  /\ test_images = 0
  /\ sample_i = 0
  /\ total_errors = <<>>
  /\ eval_verdict = "none"
  /\ eval_result = "none"
  /\ IdleTrain
  /\ IdleSplit
  /\ IdleItem
  /\ IdlePass
  /\ IdleSvc
  /\ IdlePre
  /\ IdleLab
  /\ IdleWr

SpecEval == InitEval /\ [][NextEval]_vars

\* run_tests has printed its verdict and returned.
VerdictGiven ==
  /\ eval_entry = "run_tests"
  /\ eval_pc = "done"
  /\ eval_verdict # "none"

\* C18: the verdict depends on the overall mean absolute error only (below 8
\* pass-excellent, 8 to below 10 pass, 10 to below 12 warn, 12 or more fail),
\* and run_tests returns True exactly when that mean is below 12, whatever
\* the per-metric means are.
C18_VerdictFromOverallMae ==
  VerdictGiven =>
    LET sum == SumSeq(total_errors)
        count == NUM_METRICS * test_images
    IN /\ eval_verdict = "pass_excellent" <=> sum < 8 * count
       /\ eval_verdict = "pass" <=> (8 * count <= sum /\ sum < 10 * count)
       /\ eval_verdict = "warn" <=> (10 * count <= sum /\ sum < 12 * count)
       /\ eval_verdict = "fail" <=> 12 * count <= sum
       /\ eval_result = "True" <=> sum < 12 * count
       /\ eval_result = "False" <=> 12 * count <= sum

\* run_tests returned True although one metric's mean error is 15 or more.
C18_Witness ==
  /\ VerdictGiven
  /\ eval_result = "True"
  /\ \E i \in 1..NUM_METRICS : 15 * test_images <= total_errors[i]

\* C19: with the checkpoint missing or unreadable, an evaluator entry point
\* ends by returning an error result to its caller, never by a crash.
C19_NotReadyNoCrash ==
  eval_ckpt # "good" =>
    /\ eval_pc # "crashed"
    /\ eval_pc = "done" => eval_result \in {"False", "None"}

\* Runs for the steps after the loop: the training loss is finite and the
\* validation loss is one of two finite values or NaN, so that runs with and
\* without a checkpoint of their own reach the export.
ExportValLosses == {Fin(20), Fin(25), NaN}

InitExport ==
  /\ PATIENCE \in 1..MaxPatience
  /\ NUM_EPOCHS \in 1..MaxEpochs
  /\ train_domain = {Fin(10)}
  /\ val_domain = ExportValLosses
  /\ checkpoint \in {<<>>, <<StaleCheckpoint(Fin(25))>>}
  /\ sched_patience = SCHED_PATIENCE
  /\ TrainerStart
  /\ IdleSplit
  /\ IdleItem
  /\ IdlePass
  /\ IdleSvc
  /\ IdleEval
  /\ IdlePre
  /\ IdleLab
  /\ IdleWr

SpecExportFair == InitExport /\ [][NextTrain]_vars /\ WF_vars(NextTrain)

\* C20: when the ONNX export fails, the failure is printed, no step from the
\* export on changes best_model.pth, and the run goes on to completion with
\* model_config.json written.
C20_ExportFailureKeepsCheckpoint ==
  /\ [][(pc = "export" \/ pc = "config" \/ pc = "done") =>
          (checkpoint' = checkpoint /\ pc' # "crashed")]_vars
  /\ [](pc \in {"config", "done"} => onnx \in {"saved", "failed"})
  /\ (onnx = "failed") ~> (pc = "done" /\ config = "written" /\ checkpoint # <<>>)

\* The export failed and the run completed.
C20_Witness ==
  /\ onnx = "failed"
  /\ pc = "done"
  /\ config = "written"
  /\ checkpoint # <<>>

\* The validation loss of the epoch a step has just run.
LastValLoss(h) == h[Len(h)].val_loss

\* C21 as stated: the learning rate is halved when the validation loss has
\* failed to improve for the configured number of consecutive epochs.
C21_HalvedAtConfiguredCount ==
  (Len(history) = sched_patience + 1 /\ EpochsSinceImprovement(history) = sched_patience)
    => lr * 2 = LEARNING_RATE

\* C21 amended: the learning rate is halved exactly at an epoch that fails to
\* improve on the scheduler's best when the scheduler has already counted the
\* configured number of such epochs in a row (the count then restarts); the
\* early-stopping counter moves by the trainer's own comparison alone, and a
\* reset of either counter leaves the other alone.
C21_HalvedAfterConfiguredCount ==
  [][epoch' = epoch + 1 =>
       LET v == LastValLoss(history')
           plateau == ~IsBetter(v, sched_best) /\ num_bad_epochs = sched_patience
       IN /\ plateau => (lr' * 2 = lr /\ num_bad_epochs' = 0)
          /\ ~plateau => lr' = lr
          /\ (~plateau /\ ~IsBetter(v, sched_best)) => num_bad_epochs' = num_bad_epochs + 1
          /\ IsBetter(v, sched_best) => num_bad_epochs' = 0
          /\ Lt(v, best_val_loss) => patience_counter' = 0
          /\ ~Lt(v, best_val_loss) => patience_counter' = patience_counter + 1]_vars

\* The rate has been halved once, the early-stopping counter kept counting
\* through the reduction, and the two counters differ.
C21_Witness ==
  /\ lr * 2 = LEARNING_RATE
  /\ num_bad_epochs = 0
  /\ patience_counter > sched_patience
  /\ pc = "loop"

\* ------------------------------------------------------------------ preprocessing

\* IMAGE_SIZE of train_model.py (line 34), test_model.py (line 27) and
\* api/main.py (line 39).
IMAGE_SIZE_train == 224
IMAGE_SIZE_test == 224
IMAGE_SIZE_api == 224

Step(op, arg) == [op |-> op, arg |-> arg]

\* transforms.Normalize(mean, std) of the three files, in thousandths.
NormalizeTrain == [mean |-> <<485, 456, 406>>, std |-> <<229, 224, 225>>]
NormalizeTest == [mean |-> <<485, 456, 406>>, std |-> <<229, 224, 225>>]
NormalizeApi == [mean |-> <<485, 456, 406>>, std |-> <<229, 224, 225>>]

\* The steps that draw from the random generator at each call.
RandomOps == {"random_resized_crop", "random_flip", "random_rotation", "color_jitter"}

\* get_transforms(is_training=True), lines 136-152.
TrainingTransform ==
  <<Step("resize", IMAGE_SIZE_train + 32),
    Step("random_resized_crop", IMAGE_SIZE_train),
    Step("random_flip", 0),
    Step("random_rotation", 15),
    Step("color_jitter", 0),
    Step("to_tensor", 0),
    Step("normalize", NormalizeTrain)>>

\* Mutant of get_transforms: the is_training flag is not looked at.
get_transforms_AlwaysTraining(is_training) == TrainingTransform

\* get_transforms (train_model.py lines 133-161).
get_transforms(is_training) ==
  IF is_training
  THEN TrainingTransform
  ELSE <<Step("resize", IMAGE_SIZE_train),
         Step("to_tensor", 0),
         Step("normalize", NormalizeTrain)>>

\* get_inference_transform of test_model.py (lines 74-83).
get_inference_transform_test ==
  <<Step("resize", IMAGE_SIZE_test),
    Step("to_tensor", 0),
    Step("normalize", NormalizeTest)>>

\* get_inference_transform of api/main.py (lines 89-98).
get_inference_transform_api ==
  <<Step("resize", IMAGE_SIZE_api),
    Step("to_tensor", 0),
    Step("normalize", NormalizeApi)>>

PreSites == {"train", "validation", "evaluator", "service"}

\* The transform each site passes its images through (train_model.py lines
\* 279-284, test_model.py line 135, api/main.py line 100).
TransformOf(site) ==
  IF site = "train" THEN get_transforms(TRUE)
  ELSE IF site = "validation" THEN get_transforms(FALSE)
  ELSE IF site = "evaluator" THEN get_inference_transform_test
  ELSE get_inference_transform_api

\* One step of a Compose applied to an image; draw is what a random step
\* drew.
ApplyStep(step, image, draw) ==
  IF step.op = "resize" \/ step.op = "random_resized_crop"
  THEN [image EXCEPT !.width = step.arg, !.height = step.arg,
                     !.random = IF step.op \in RandomOps
                                THEN Append(@, <<step.op, draw>>) ELSE @]
  ELSE IF step.op \in RandomOps
  THEN [image EXCEPT !.random = Append(@, <<step.op, draw>>)]
  ELSE IF step.op = "to_tensor"
  THEN [image EXCEPT !.kind = "tensor"]
  ELSE [image EXCEPT !.normalized = <<step.arg>>]

\* Image.open(path).convert("RGB") at train_model.py line 82 and
\* test_model.py line 106; image.convert("RGB") at api/main.py line 225.
OpenConvert ==
  /\ pre_pc = "open"
  /\ pre_image' = [mode |-> "RGB", width |-> pre_source.width,
                   height |-> pre_source.height, kind |-> "pil",
                   normalized |-> <<>>, random |-> <<>>]
  /\ pre_applied' = <<"convert">>
  /\ pre_pc' = "transform"
  /\ UNCHANGED <<pre_site, pre_source>>
  /\ UNCHANGED nonPreVars

\* The next step of the site's Compose.
TransformStep ==
  /\ pre_pc = "transform"
  /\ LET steps == TransformOf(pre_site)
         i == Len(pre_applied)
     IN /\ i <= Len(steps)
        /\ \E draw \in (IF steps[i].op \in RandomOps THEN {0, 1} ELSE {0}) :
             pre_image' = ApplyStep(steps[i], pre_image, draw)
        /\ pre_applied' = Append(pre_applied, steps[i].op)
        /\ pre_pc' = IF i = Len(steps) THEN "done" ELSE "transform"
  /\ UNCHANGED <<pre_site, pre_source>>
  /\ UNCHANGED nonPreVars

NextPre == OpenConvert \/ TransformStep

ImageModes == {"RGB", "RGBA", "L"}
ImageSides == {1, 224, 300}

\* One image file of any mode and size, read at one of the four sites.
InitPre ==
  /\ pre_pc = "open"
  /\ pre_site \in PreSites
  /\ pre_source \in [mode : ImageModes, width : ImageSides, height : ImageSides]
  /\ pre_image = <<>>
  /\ pre_applied = <<>>
  /\ IdleTrain
  /\ IdleSplit
  /\ IdleItem
  /\ IdlePass
  /\ IdleSvc
  /\ IdleEval
  /\ IdleLab
  /\ IdleWr

SpecPre == InitPre /\ [][NextPre]_vars

\* C22: validation, the evaluator and the service preprocess alike: convert
\* to RGB, resize to 224x224, to tensor, normalize with the same means and
\* standard deviations, in that order; the random augmentation steps are
\* applied at the training site only.
C22_SamePreprocessing ==
  /\ pre_site \in PreSites \ {"train"} =>
       /\ \A i \in 1..Len(pre_applied) : pre_applied[i] \notin RandomOps
       /\ pre_pc \in {"transform", "done"} => pre_image.random = <<>>
       /\ pre_pc = "done" =>
            /\ pre_applied = <<"convert", "resize", "to_tensor", "normalize">>
            /\ pre_image = [mode |-> "RGB", width |-> 224, height |-> 224,
                            kind |-> "tensor",
                            normalized |-> <<get_transforms(FALSE)[3].arg>>,
                            random |-> <<>>]
  /\ (pre_site = "train" /\ pre_pc = "done") =>
       /\ pre_image.normalized = <<get_transforms(FALSE)[3].arg>>
       /\ {pre_applied[i] : i \in 1..Len(pre_applied)} \cap RandomOps = RandomOps

\* The service has preprocessed an RGBA image that is not 224 wide.
C22_Witness ==
  /\ pre_pc = "done"
  /\ pre_site = "service"
  /\ pre_source.mode = "RGBA"
  /\ pre_source.width = 300

\* C23: every checkpoint the trainer writes holds, next to the parameters,
\* the metric order, the normalization constants, a validation error vector
\* of length 7 and an epoch that is higher than that of the write before.
C23_CheckpointBindsAll ==
  \A i \in 1..Len(writes) :
    /\ {"model_state_dict", "metrics", "normalization", "val_mae", "epoch"}
         \subseteq writes[i].keys
    /\ Len(writes[i].val_mae) = 7
    /\ i > 1 => writes[i - 1].epoch < writes[i].epoch

\* C26: a checkpoint that is on disk is replaced only by one whose validation
\* loss is strictly lower than the loss stored in it, also when it was left
\* by an earlier run.
C26_OverwrittenOnlyByBetter ==
  [][(checkpoint # <<>> /\ checkpoint' # checkpoint) =>
       Lt(checkpoint'[1].val_loss, checkpoint[1].val_loss)]_vars

\* The epoch loop of this run has ended.
LoopEnded == pc \in {"plot", "load_best", "export", "config", "done", "crashed"}

\* C27: when the loop has ended, the checkpoint on disk holds the lowest
\* validation loss of the epochs run, with the earliest epoch that attained
\* it, and the history holds one entry per epoch run.
C27_CheckpointIsMinimum ==
  LoopEnded =>
    /\ Len(history) = epoch
    /\ checkpoint # <<>>
    /\ checkpoint[1].run = "this"
    /\ checkpoint[1].epoch + 1 \in 1..Len(history)
    /\ history[checkpoint[1].epoch + 1].val_loss = checkpoint[1].val_loss
    /\ \A i \in 1..Len(history) : ~Lt(history[i].val_loss, checkpoint[1].val_loss)
    /\ \A i \in 1..checkpoint[1].epoch : history[i].val_loss # checkpoint[1].val_loss

\* C28: when the export phase starts, best_model.pth exists and was written
\* by this run.
C28_ExportsOwnCheckpoint ==
  pc \in {"load_best", "export"} =>
    /\ checkpoint # <<>>
    /\ checkpoint[1].run = "this"

\* ------------------------------------------------------- labelling scripts
\* label_full_dataset.py and generate_missing_scores.py ask a vision API for
\* the scores of each image. A response is modelled by its form (how the text
\* wraps the JSON object) and by the object itself: a function from keys to
\* JSON values. Numbers are held in tenths, so that 72.5 is 725.

MaxRetries == 3
MaxImages == 2

\* label_full_dataset.py lines 42-50.
ALL_METRICS ==
  <<"jawline", "cheekbones", "eyes_symmetry", "nose_harmony",
    "facial_symmetry", "skin_quality", "sexual_dimorphism">>

\* generate_missing_scores.py line 44.
METRICS_TO_GENERATE == <<"facial_symmetry", "skin_quality", "sexual_dimorphism">>

LabScripts == {"label_full_dataset", "generate_missing_scores"}

\* The keys parse_scores validates in each script (lines 182 and 165).
RequiredKeys(script) ==
  IF script = "label_full_dataset" THEN ALL_METRICS ELSE METRICS_TO_GENERATE

\* What json.loads can yield for one key. Python's json reads true as the
\* bool True and the token NaN as float('nan').
JNumber(tenths) == [t |-> "number", v |-> tenths]
JTrue == [t |-> "bool", v |-> 10]
JString == [t |-> "string", v |-> 0]
JNull == [t |-> "null", v |-> 0]
JNaN == [t |-> "nan", v |-> 0]

\* isinstance(val, (int, float)): bool is a subclass of int.
IsIntOrFloat(val) == val.t \in {"number", "bool", "nan"}

\* round(float(val)): to the nearest integer, ties to the even one. float(True)
\* is 1.0. round(float('nan')) raises ValueError.
RoundFloat(val) ==
  LET q == val.v \div 10
      r == val.v % 10
  IN IF r < 5 THEN q
     ELSE IF r > 5 THEN q + 1
     ELSE IF q % 2 = 0 THEN q ELSE q + 1

\* max(0, min(100, x)).
Clamp(x) == IF x < 0 THEN 0 ELSE IF x > 100 THEN 100 ELSE x

ResponseForms == {"json", "fenced", "wrapped", "garbage", "broken"}

ParseError == [ok |-> FALSE, data |-> <<>>]

\* parse_scores: the fences are stripped; if json.loads fails, the text from
\* the first "{" to the last "}" is tried; then every required key must be
\* present and an int or float, and is replaced by its rounded, clamped value.
\* "garbage" has no braces (ValueError), "broken" has braces round invalid
\* JSON (JSONDecodeError).
parse_scores(raw_response, keys) ==
  IF raw_response.form \in {"garbage", "broken"} THEN ParseError
  ELSE LET data == raw_response.data
           invalid == {k \in Range(keys) :
                         \/ k \notin DOMAIN data
                         \/ ~IsIntOrFloat(data[k])
                         \/ data[k].t = "nan"}
       IN IF invalid # {} THEN ParseError
          ELSE [ok |-> TRUE,
                data |-> [k \in Range(keys) |-> Clamp(RoundFloat(data[k]))]]

\* Responses: an object in which every key of ALL_METRICS is 73, with one key
\* replaced by another value or left out.
BaseData == [k \in Range(ALL_METRICS) |-> JNumber(730)]

KeyValues ==
  {JNumber(725), JNumber(735), JNumber(1500), JNumber(-30), JNumber(-25),
   JTrue, JString, JNull, JNaN}

VariedKeys == {"jawline", "skin_quality"}

Without(data, key) == [k \in DOMAIN data \ {key} |-> data[k]]

ResponseData ==
  {BaseData}
    \cup {[BaseData EXCEPT ![k] = v] : k \in VariedKeys, v \in KeyValues}
    \cup {Without(BaseData, k) : k \in VariedKeys}

ApiError == [kind |-> "api_error", form |-> "", data |-> <<>>]

\* The outcomes of one client.chat.completions.create call.
Outcomes ==
  {ApiError}
    \cup {[kind |-> "text", form |-> f, data |-> d] :
            f \in {"json", "fenced", "wrapped"}, d \in ResponseData}
    \cup {[kind |-> "text", form |-> f, data |-> <<>>] : f \in {"garbage", "broken"}}

\* The result of the try block of score_image for one outcome.
TryResult(outcome, script) ==
  IF outcome.kind = "text" THEN parse_scores(outcome, RequiredKeys(script))
  ELSE ParseError

\* 2 ** attempt.
Backoff(n) == 2 ^ n

\* Mutant of ShouldSleep: the handler sleeps after every failure.
ShouldSleep_Always(n, retries) == TRUE

\* Line 221 (204): if attempt < max_retries - 1.
ShouldSleep(n, retries) == n < retries - 1

\* score_image is called: the loop starts, or ends at once when
\* range(max_retries) is empty (the function then returns None).
ScoreImageCall ==
  /\ lab_pc = "idle"
  /\ main_pc \in {"none", "loop"}
  /\ main_pc = "loop" => img_i < remaining
  /\ attempt' = 0
  /\ api_calls' = 0
  /\ sleeps' = <<>>
  /\ raw' = NoOutcome
  /\ lab_scores' = <<>>
  /\ lab_pc' = IF max_retries > 0 THEN "attempt" ELSE "exhausted"
  /\ UNCHANGED <<lab_script, main_pc, remaining, img_i, max_retries, completed, failed, saved>>
  /\ UNCHANGED nonLabVars

\* The try block: one API call, then parse_scores; success returns.
Attempt ==
  /\ lab_pc = "attempt"
  /\ \E outcome \in Outcomes :
       LET r == TryResult(outcome, lab_script)
       IN /\ raw' = outcome
          /\ api_calls' = api_calls + 1
          /\ lab_pc' = IF r.ok THEN "returned" ELSE "except"
          /\ lab_scores' = IF r.ok THEN r.data ELSE lab_scores
  /\ UNCHANGED <<lab_script, main_pc, remaining, img_i, max_retries, attempt, sleeps,
                 completed, failed, saved>>
  /\ UNCHANGED nonLabVars

\* The except clause: sleep and go round the loop, or re-raise.
Except ==
  /\ lab_pc = "except"
  /\ IF ShouldSleep(attempt, max_retries)
     THEN /\ sleeps' = Append(sleeps, Backoff(attempt))
          /\ attempt' = attempt + 1
          /\ lab_pc' = IF attempt + 1 < max_retries THEN "attempt" ELSE "exhausted"
     ELSE /\ lab_pc' = "raised"
          /\ UNCHANGED <<sleeps, attempt>>
  /\ UNCHANGED <<lab_script, main_pc, remaining, img_i, max_retries, api_calls, raw,
                 lab_scores, completed, failed, saved>>
  /\ UNCHANGED nonLabVars

NextScoreImage == ScoreImageCall \/ Attempt \/ Except

InitScoreImage ==
  /\ IdleTrain /\ IdleSplit /\ IdleItem /\ IdlePass /\ IdleSvc /\ IdleEval /\ IdlePre
  /\ lab_script \in LabScripts
  /\ max_retries \in 0..MaxRetries
  /\ main_pc = "none"
  /\ remaining = 0
  /\ img_i = 0
  /\ lab_pc = "idle"
  /\ attempt = 0
  /\ api_calls = 0
  /\ sleeps = <<>>
  /\ raw = NoOutcome
  /\ lab_scores = <<>>
  /\ completed = <<>>
  /\ failed = <<>>
  /\ saved = FALSE
  /\ IdleWr

SpecScoreImage == InitScoreImage /\ [][NextScoreImage]_vars

\* The latest API call returned a parsable JSON object.
ParsableResponse ==
  /\ raw.kind = "text"
  /\ raw.form \in {"json", "fenced", "wrapped"}

\* The latest response lacks a required key or holds a value that is not a
\* JSON number under one.
MissingOrNonNumeric ==
  /\ ParsableResponse
  /\ \E k \in Range(RequiredKeys(lab_script)) :
       \/ k \notin DOMAIN raw.data
       \/ raw.data[k].t # "number"

\* C24: a record accepted from the vision API has exactly the required keys
\* (7 in label_full_dataset, 3 in generate_missing_scores), each an integer in
\* 0..100; a response that lacks a required key or holds a non-numeric value
\* is rejected and yields no record.
C24_AcceptedRecordSchema ==
  /\ lab_pc = "returned" =>
       /\ DOMAIN lab_scores = Range(RequiredKeys(lab_script))
       /\ \A k \in DOMAIN lab_scores : lab_scores[k] \in 0..100
  /\ (lab_pc \in {"returned", "except"} /\ MissingOrNonNumeric) =>
       /\ lab_pc = "except"
       /\ lab_scores = <<>>

\* What the claim says of every response but one holding a JSON boolean.
C24_SchemaButBoolean ==
  /\ lab_pc = "returned" =>
       /\ DOMAIN lab_scores = Range(RequiredKeys(lab_script))
       /\ \A k \in DOMAIN lab_scores : lab_scores[k] \in 0..100
  /\ (/\ lab_pc \in {"returned", "except"}
      /\ MissingOrNonNumeric
      /\ \A k \in Range(RequiredKeys(lab_script)) :
           k \in DOMAIN raw.data => raw.data[k].t # "bool") =>
       /\ lab_pc = "except"
       /\ lab_scores = <<>>

\* An out-of-range number was clamped, a half was rounded to the even integer.
C24_ClampWitness ==
  /\ lab_pc = "returned"
  /\ raw.data["skin_quality"] = JNumber(1500)
  /\ lab_scores["skin_quality"] = 100

\* C29: score_image makes at most max_retries attempts; the first success
\* returns its parsed scores and ends the call; each failed attempt but the
\* last is followed by a wait of 2^attempt seconds; the last failure is
\* re-raised without a wait.
C29_RetryWithBackoff ==
  /\ []( /\ api_calls <= max_retries
         /\ \A i \in 1..Len(sleeps) : sleeps[i] = 2 ^ (i - 1)
         /\ lab_pc = "attempt" => Len(sleeps) = api_calls
         /\ lab_pc = "except" => Len(sleeps) = api_calls - 1
         /\ lab_pc = "returned" =>
              /\ TryResult(raw, lab_script).ok
              /\ lab_scores = TryResult(raw, lab_script).data
              /\ Len(sleeps) = api_calls - 1
         /\ lab_pc = "raised" =>
              /\ ~TryResult(raw, lab_script).ok
              /\ api_calls = max_retries
              /\ Len(sleeps) = max_retries - 1
         /\ lab_pc = "exhausted" => max_retries = 0 )
  /\ [][(lab_pc = "returned" /\ main_pc = "none") =>
          UNCHANGED <<api_calls, sleeps, lab_scores>>]_vars
  /\ [][(lab_pc = "except" /\ api_calls < max_retries) =>
          (lab_pc' = "attempt" /\ sleeps' = Append(sleeps, 2 ^ attempt))]_vars

\* The third attempt succeeded after waits of 1 and 2 seconds.
C29_Witness ==
  /\ lab_pc = "returned"
  /\ api_calls = 3
  /\ sleeps = <<1, 2>>

\* Three attempts failed and the error was re-raised after two waits.
C29_RaisedWitness ==
  /\ lab_pc = "raised"
  /\ api_calls = 3
  /\ sleeps = <<1, 2>>

\* score_image's default max_retries, which both main() use.
DEFAULT_MAX_RETRIES == 3

\* Whether main() binds the name filename before its except clause reads it:
\* generate_missing_scores.py does at line 318; label_full_dataset.py binds
\* only rel_path (line 374), and no module-level filename exists.
FilenameBound(script) == script = "generate_missing_scores"

Count(seq, x) == Cardinality({j \in 1..Len(seq) : seq[j] = x})

\* Lines 362-365: with nothing left, label_full_dataset combines the datasets
\* and returns; otherwise the loop is entered (an empty loop falls through to
\* the final save).
MainStart ==
  /\ main_pc = "start"
  /\ main_pc' = IF remaining > 0 THEN "loop"
                ELSE IF lab_script = "label_full_dataset" THEN "done"
                ELSE "final_save"
  /\ UNCHANGED <<lab_script, remaining, img_i, lab_pc, max_retries, attempt, api_calls,
                 sleeps, raw, lab_scores, completed, failed, saved>>
  /\ UNCHANGED nonLabVars

\* Lines 381-396: score_image returned; the scores are stored under the image.
MainStore ==
  /\ main_pc = "loop"
  /\ lab_pc = "returned"
  /\ completed' = [i \in DOMAIN completed \cup {img_i + 1} |->
                     IF i = img_i + 1 THEN lab_scores ELSE completed[i]]
  /\ img_i' = img_i + 1
  /\ lab_pc' = "idle"
  /\ main_pc' = IF img_i + 1 < remaining THEN "loop" ELSE "final_save"
  /\ UNCHANGED <<lab_script, remaining, max_retries, attempt, api_calls, sleeps, raw,
                 lab_scores, failed, saved>>
  /\ UNCHANGED nonLabVars

\* Lines 398-401: score_image raised. The handler reads filename: where the
\* name is unbound, NameError leaves the handler, the loop and main().
MainExcept ==
  /\ main_pc = "loop"
  /\ lab_pc = "raised"
  /\ IF FilenameBound(lab_script)
     THEN /\ failed' = IF img_i + 1 \in Range(failed) THEN failed
                       ELSE Append(failed, img_i + 1)
          /\ img_i' = img_i + 1
          /\ lab_pc' = "idle"
          /\ main_pc' = IF img_i + 1 < remaining THEN "loop" ELSE "final_save"
     ELSE /\ main_pc' = "aborted"
          /\ UNCHANGED <<failed, img_i, lab_pc>>
  /\ UNCHANGED <<lab_script, remaining, max_retries, attempt, api_calls, sleeps, raw,
                 lab_scores, completed, saved>>
  /\ UNCHANGED nonLabVars

\* Lines 403-407: the final save_progress and save_output.
FinalSave ==
  /\ main_pc = "final_save"
  /\ saved' = TRUE
  /\ main_pc' = "done"
  /\ UNCHANGED <<lab_script, remaining, img_i, lab_pc, max_retries, attempt, api_calls,
                 sleeps, raw, lab_scores, completed, failed>>
  /\ UNCHANGED nonLabVars

NextLabel ==
  MainStart \/ ScoreImageCall \/ Attempt \/ Except \/ MainStore \/ MainExcept \/ FinalSave

\* main() after load_progress: up to MaxImages images remain; the failed list
\* of an earlier run is empty or names the first of them.
InitLabel ==
  /\ IdleTrain /\ IdleSplit /\ IdleItem /\ IdlePass /\ IdleSvc /\ IdleEval /\ IdlePre
  /\ lab_script \in LabScripts
  /\ max_retries = DEFAULT_MAX_RETRIES
  /\ main_pc = "start"
  /\ remaining \in 0..MaxImages
  /\ img_i = 0
  /\ lab_pc = "idle"
  /\ attempt = 0
  /\ api_calls = 0
  /\ sleeps = <<>>
  /\ raw = NoOutcome
  /\ lab_scores = <<>>
  /\ completed = <<>>
  /\ failed \in {<<>>, <<1>>}
  /\ remaining = 0 => failed = <<>>
  /\ saved = FALSE
  /\ IdleWr

SpecLabel == InitLabel /\ [][NextLabel]_vars

\* What C30 says of a run of main(): it is not aborted; every image gone
\* through is in completed or else exactly once in failed; a run that ends
\* after the loop has gone through every image and made the final save.
FailuresHandled ==
  /\ main_pc # "aborted"
  /\ \A i \in 1..img_i : i \notin DOMAIN completed => Count(failed, i) = 1
  /\ (main_pc = "done" /\ remaining > 0) => (img_i = remaining /\ saved)

\* C30: in label_full_dataset's main loop an image that fails after all
\* retries does not abort the run: it is recorded once in failed and not in
\* completed, the remaining images are processed and the final files saved.
C30_FailedImageDoesNotAbort ==
  lab_script = "label_full_dataset" => FailuresHandled

\* The same statement about generate_missing_scores, whose loop binds filename.
C30_HoldsInGenerateMissing ==
  lab_script = "generate_missing_scores" => FailuresHandled

\* ------------------------------------------------- checkpoint write and read
\* The trainer's torch.save(..., OUTPUT_DIR / "best_model.pth") beside a service
\* that starts. OUTPUT_DIR (train_model.py line 30) is the directory of the
\* service's MODEL_PATH (api/main.py lines 35-36), the first searched path.

MaxSaves == 2

TRAINER_PATH == 1

\* torch.save opens the target itself for writing: from then until the
\* archive is complete the file exists and holds a part of it.
WhileWriting(file) == "partial"

\* Lines 351-357, first part: torch.save has opened best_model.pth.
TorchSaveOpen ==
  /\ save_pc = "idle"
  /\ saves_done < MaxSaves
  /\ disk' = [disk EXCEPT ![TRAINER_PATH] = WhileWriting(disk[TRAINER_PATH])]
  /\ save_pc' = "writing"
  /\ UNCHANGED <<saves_done, svc_pc, model, model_path, resp>>
  /\ UNCHANGED reqVars
  /\ UNCHANGED <<trainVars, splitVars, itemVars, passVars, evalVars, preVars, labVars>>

\* Lines 351-357, second part: the archive is complete and the file closed.
TorchSaveClose ==
  /\ save_pc = "writing"
  /\ disk' = [disk EXCEPT ![TRAINER_PATH] = "good"]
  /\ save_pc' = "idle"
  /\ saves_done' = saves_done + 1
  /\ UNCHANGED <<svc_pc, model, model_path, resp>>
  /\ UNCHANGED reqVars
  /\ UNCHANGED <<trainVars, splitVars, itemVars, passVars, evalVars, preVars, labVars>>

NextWrite ==
  \/ LoadModelSearch
  \/ LoadModelCreate
  \/ LoadModelRead
  \/ LoadModelFinish
  \/ Health
  \/ TorchSaveOpen
  \/ TorchSaveClose

\* The service starts while the trainer runs: best_model.pth is absent or
\* holds the complete checkpoint of an earlier run; the other searched paths
\* hold a complete checkpoint or none.
InitWrite ==
  /\ svc_pc = "startup"
  /\ disk \in [1..NumPaths -> {"absent", "good"}]
  /\ model = "None"
  /\ model_path = 0
  /\ resp = NoResponse
  /\ IdleReq
  /\ save_pc = "idle"
  /\ saves_done = 0
  /\ IdleTrain
  /\ IdleSplit
  /\ IdleItem
  /\ IdlePass
  /\ IdleEval
  /\ IdlePre
  /\ IdleLab

SpecWrite == InitWrite /\ [][NextWrite]_vars

\* C25: the checkpoint is written atomically, so a service that starts while
\* it is written reads a complete checkpoint, the previous or the new one,
\* never a partial file: whenever startup has chosen a file, the load of it
\* succeeds, and the chosen file is never seen in a partial state.
C25_NeverSeesPartialWrite ==
  /\ (svc_pc = "serving" /\ model_path # 0) => model = "loaded"
  /\ svc_pc = "read" => disk[model_path] # "partial"

====
